---- MODULE Spec2Model ----
(***************************************************************************)
(* A model of the text pipeline of app.py (MentorIA YouTube study          *)
(* assistant): the recursive chunker split_into_chunks, the Q&A and bullet *)
(* reformatters format_qa / format_spanish_qa / format_numbered_qa /       *)
(* format_bullet_points, and the generation orchestrator                   *)
(* generate_study_material with process_chunk and combine_results.         *)
(*                                                                         *)
(* A Python string is a sequence of one-character strings; positions are   *)
(* 0-based as in Python, so text[:pos] is Prefix(text, pos) and text[pos:] *)
(* is Suffix(text, pos).                                                   *)
(***************************************************************************)
EXTENDS Integers, Sequences, FiniteSets, TLC

VARIABLES
    pc,           \* position of the running call: "start" or "done"
    text,         \* argument `text` of the function under analysis
    max_chars,    \* argument `max_chars` of split_into_chunks
    chunks,       \* value returned by split_into_chunks
    language,     \* argument `language`
    transcript,   \* argument `transcript` of generate_study_material
    material_type,\* argument `material_type` of generate_study_material
    api_key,      \* whether os.getenv("GROQ_API_KEY") is set
    idx,          \* the loop index `i` of generate_study_material
    results,      \* the list `results` of generate_study_material
    calls,        \* the Completion Service calls issued so far, in order
    failed,       \* whether a Completion Service call has raised
    result,       \* the value returned by the function under analysis
    formatted,    \* the list `formatted` of format_qa when it returns
    again,        \* the value returned for the previous result as input
    lru,          \* the entries of the lru_cache of get_transcript, oldest first
    cache_data,   \* the entries of the st.cache_data of generate_study_material
    log,          \* the calls of the two memoized functions so far, in order
    max_retries,  \* the argument max_retries of _get_transcript_yt_dlp
    attempt,      \* the loop variable `attempt` of _get_transcript_yt_dlp
    runs,         \* the outcomes of the yt-dlp runs of the current attempt
    ended,        \* how each attempt that is over ended, in order
    fetched       \* what _get_transcript_yt_dlp returned or raised

vars == <<pc, text, max_chars, chunks, language, transcript, material_type,
          api_key, idx, results, calls, failed, result, formatted, again, lru,
          cache_data, log, max_retries, attempt, runs, ended, fetched>>

(***************************************************************************)
(* Bounds of the model.                                                    *)
(***************************************************************************)
MaxTextLen == 6      \* longest text handed to split_into_chunks
MaxMaxChars == 4     \* largest max_chars handed to split_into_chunks
MaxTranscriptLen == 7 \* longest transcript handed to generate_study_material
\* stands for the 4000 of app.py 766 and 873, scaled down so that transcripts
\* on both sides of it, and transcripts of several chunks, can be enumerated
ChunkLimit == 4
MaxWords == 3        \* most marker words in a text handed to format_qa
MaxBulletWords == 3  \* most words in a text handed to format_bullet_points

(***************************************************************************)
(* Python string primitives.                                               *)
(***************************************************************************)
\* the vertical-tab character
VT == "<VT>"

Whitespace == {" ", "\n", "\t", "\r", "\f", VT}

Prefix(s, n) == SubSeq(s, 1, n)

Suffix(s, n) == SubSeq(s, n + 1, Len(s))

Slice(s, i, j) == SubSeq(s, i + 1, j)

IsAt(s, p, i) ==
    /\ i >= 0
    /\ i + Len(p) <= Len(s)
    /\ \A k \in 1..Len(p) : s[i + k] = p[k]

Max(S) == CHOOSE x \in S : \A y \in S : y <= x

Min(S) == CHOOSE x \in S : \A y \in S : x <= y

\* the greatest, or the least, element of S, and none when S is empty
MaxOr(S, none) == IF S = {} THEN none ELSE Max(S)

MinOr(S, none) == IF S = {} THEN none ELSE Min(S)

\* s.rfind(p, start, end): the highest index in [start, end - len(p)] where p
\* occurs, or -1
rfind(s, p, start, end) ==
    MaxOr({i \in start..(end - Len(p)) : IsAt(s, p, i)}, -1)

\* s.find(p): the lowest index where p occurs, or -1
find(s, p) == MinOr({i \in 0..(Len(s) - Len(p)) : IsAt(s, p, i)}, -1)

Contains(s, p) == find(s, p) >= 0

\* s.lstrip(chars) and s.rstrip(chars) for a set of characters
lstripSet(s, cs) ==
    LET keep == {i \in 1..Len(s) : s[i] \notin cs}
    IN  IF keep = {} THEN <<>> ELSE SubSeq(s, Min(keep), Len(s))

rstripSet(s, cs) ==
    LET keep == {i \in 1..Len(s) : s[i] \notin cs}
    IN  IF keep = {} THEN <<>> ELSE SubSeq(s, 1, Max(keep))

\* s.strip(): leading and trailing whitespace removed
strip(s) == rstripSet(lstripSet(s, Whitespace), Whitespace)

(***************************************************************************)
(* split_into_chunks (app.py 766-782).                                     *)
(***************************************************************************)
\* the boundary markers tried in order; the last one is the empty string
Puncts == << <<".", " ">>, <<"!", " ">>, <<"?", " ">>, <<"\n">>, <<" ">>, <<>> >>

\* variant that takes the end of the text for the midpoint
MidWhole(t) == Len(t)

Mid(t) == Len(t) \div 2

\* pos = text.rfind(punct, 0, mid) + len(punct) if punct else mid
Candidate(t, punct) ==
    IF punct # <<>> THEN rfind(t, punct, 0, Mid(t)) + Len(punct) ELSE Mid(t)

\* if pos > max_chars // 4: break
Accepts(pos, mc) == pos > mc \div 4

\* the for/else loop: the first accepted candidate, or mid when none is
SplitPos(t, mc) ==
    LET ok == {k \in 1..Len(Puncts) : Accepts(Candidate(t, Puncts[k]), mc)}
    IN  IF ok = {} THEN Mid(t) ELSE Candidate(t, Puncts[Min(ok)])

\* variants of the base-case test: the length taken after trimming, and a
\* bound that is one too large
FitsStripped(t, mc) == Len(strip(t)) <= mc

FitsOffByOne(t, mc) == Len(t) <= mc + 1

\* if len(text) <= max_chars: return [text]
Fits(t, mc) == Len(t) <= mc

LeftHalf(t, pos) == strip(Prefix(t, pos))

\* variant of the right half that starts one character late
RightHalfSkip(t, pos) == strip(Suffix(t, pos + 1))

RightHalf(t, pos) == strip(Suffix(t, pos))

RECURSIVE split_into_chunks(_, _)
split_into_chunks(t, mc) ==
    IF Fits(t, mc)
    THEN <<t>>
    ELSE LET pos == SplitPos(t, mc)
         IN  split_into_chunks(LeftHalf(t, pos), mc)
                 \o split_into_chunks(RightHalf(t, pos), mc)

(***************************************************************************)
(* Specification of a call of split_into_chunks on a bounded text.         *)
(***************************************************************************)
ChunkAlphabet == {"a", " ", ".", "\n"}

ChunkTexts == UNION {[1..n -> ChunkAlphabet] : n \in 0..MaxTextLen}

\* the state of generate_study_material when it is not the function called
GenIdle ==
    /\ transcript = <<>>
    /\ material_type = ""
    /\ api_key = FALSE
    /\ idx = 0
    /\ results = <<>>
    /\ calls = <<>>
    /\ failed = FALSE

\* the state of the formatters when they are not the function called
FormatIdle ==
    /\ formatted = <<>>
    /\ again = <<>>

\* the state of the two memoizing decorators when no memoized call is made
cacheVars == <<lru, cache_data, log>>

CacheIdle ==
    /\ lru = <<>>
    /\ cache_data = <<>>
    /\ log = <<>>

\* the state of _get_transcript_yt_dlp when it is not the function called
fetchVars == <<max_retries, attempt, runs, ended, fetched>>

FetchIdle ==
    /\ max_retries = 0
    /\ attempt = 0
    /\ runs = <<>>
    /\ ended = <<>>
    /\ fetched = [kind |-> "none", value |-> <<>>]

InitChunk ==
    /\ pc = "start"
    /\ text \in ChunkTexts
    /\ max_chars \in 1..MaxMaxChars
    /\ chunks = <<>>
    /\ language = "en"
    /\ result = <<>>
    /\ GenIdle
    /\ FormatIdle
    /\ CacheIdle
    /\ FetchIdle

Split ==
    /\ pc = "start"
    /\ UNCHANGED cacheVars
    /\ UNCHANGED fetchVars
    /\ chunks' = split_into_chunks(text, max_chars)
    /\ pc' = "done"
    /\ UNCHANGED <<formatted, again, text, max_chars, language, transcript, material_type,
                   api_key, idx, results, calls, failed, result>>

NextChunk == Split

SpecChunk == InitChunk /\ [][NextChunk]_vars

(***************************************************************************)
(* Properties of split_into_chunks.                                        *)
(***************************************************************************)
\* C1: every chunk returned by split_into_chunks(text, max_chars) has length
\* at most max_chars.
ChunkBound ==
    pc = "done" => \A i \in 1..Len(chunks) : Len(chunks[i]) <= max_chars

\* a text longer than max_chars that was split more than once
ChunkBoundWitness ==
    /\ pc = "done"
    /\ Len(text) > max_chars
    /\ Len(chunks) >= 3
    /\ \E i \in 1..Len(chunks) : Len(chunks[i]) = max_chars

\* C2: split_into_chunks returns exactly one chunk if and only if
\* len(text) <= max_chars, and then that chunk is text itself, untrimmed; the
\* empty text gives the single chunk "".
SingleChunkIff ==
    pc = "done" =>
        /\ (Len(chunks) = 1) <=> (Len(text) <= max_chars)
        /\ (Len(text) <= max_chars) => chunks = <<text>>
        /\ (text = <<>>) => chunks = << <<>> >>

\* a short text with leading whitespace comes back as the only chunk, untrimmed
SingleChunkWitness ==
    /\ pc = "done"
    /\ Len(text) = max_chars
    /\ text[1] = " "
    /\ chunks = <<text>>

\* Covers(t, i, cs, j): from position i on, t is the chunks cs[j], cs[j+1], ...
\* in order, separated and surrounded by whitespace only
RECURSIVE Covers(_, _, _, _)
Covers(t, i, cs, j) ==
    IF j > Len(cs)
    THEN \A k \in (i + 1)..Len(t) : t[k] \in Whitespace
    ELSE \E k \in i..Len(t) :
            /\ \A m \in (i + 1)..k : t[m] \in Whitespace
            /\ IsAt(t, cs[j], k)
            /\ Covers(t, k + Len(cs[j]), cs, j + 1)

\* C3: the chunks are, in order, non-overlapping contiguous substrings of text
\* and the characters of text that lie in no chunk are whitespace only, so
\* that re-inserting the trimmed whitespace reproduces text.
ChunkRoundTrip == pc = "done" => Covers(text, 0, chunks, 1)

\* a split that trimmed whitespace between two non-empty chunks
ChunkRoundTripWitness ==
    /\ pc = "done"
    /\ Len(chunks) = 2
    /\ chunks[1] # <<>>
    /\ chunks[2] # <<>>
    /\ Len(chunks[1]) + Len(chunks[2]) < Len(text)

\* C17: for a text longer than max_chars >= 1 the split position satisfies
\* 0 < pos < len(text) and each of the two recursive calls receives a string
\* strictly shorter than the text, so split_into_chunks terminates.
SplitShortens ==
    (max_chars >= 1 /\ Len(text) > max_chars) =>
        /\ 0 < SplitPos(text, max_chars)
        /\ SplitPos(text, max_chars) < Len(text)
        /\ Len(LeftHalf(text, SplitPos(text, max_chars))) < Len(text)
        /\ Len(RightHalf(text, SplitPos(text, max_chars))) < Len(text)
        /\ pc = "done" => Len(chunks) >= 2

\* a call that recursed on a half that was itself too long
SplitShortensWitness ==
    /\ pc = "done"
    /\ Len(text) > max_chars
    /\ ~Fits(RightHalf(text, SplitPos(text, max_chars)), max_chars)
    /\ Len(chunks) >= 3

\* the number of nested recursive calls below a call of split_into_chunks,
\* counted up to `most` levels
RECURSIVE RecursionDepth(_, _, _)
RecursionDepth(t, mc, most) ==
    IF Fits(t, mc) \/ most = 0
    THEN 0
    ELSE 1 + Max({RecursionDepth(LeftHalf(t, SplitPos(t, mc)), mc, most - 1),
                  RecursionDepth(RightHalf(t, SplitPos(t, mc)), mc, most - 1)})

DepthWithin(d, len, mc) == d >= 1 => mc * 2 ^ (d - 1) < len

\* C22: for a text longer than max_chars >= 1 the recursion depth d of
\* split_into_chunks satisfies max_chars * 2^(d-1) < len(text), that is, d is
\* at most log2(len(text) / max_chars) rounded up.
DepthLogarithmic ==
    (max_chars >= 1 /\ Len(text) > max_chars) =>
        DepthWithin(RecursionDepth(text, max_chars, Len(text) + 1),
                    Len(text), max_chars)

\* C22 (amended): for a text longer than max_chars >= 1 the recursion depth
\* of split_into_chunks is at least 1 and at most len(text) - max_chars; the
\* two parts of a split need not be of similar length.
DepthLinear ==
    (max_chars >= 1 /\ Len(text) > max_chars) =>
        /\ RecursionDepth(text, max_chars, Len(text) + 1) >= 1
        /\ RecursionDepth(text, max_chars, Len(text) + 1) <= Len(text) - max_chars
        /\ pc = "done" => Len(chunks) >= 2

\* C22 witness: a call whose depth is larger than the logarithm allows, the
\* boundary marker of the text standing near its start
DepthLinearWitness ==
    /\ pc = "done"
    /\ max_chars = 3
    /\ text = <<".", " ", "a", "a", "a", "a">>
    /\ RecursionDepth(text, max_chars, Len(text) + 1) = 2
    /\ chunks = << <<".">>, <<"a">>, <<"a", "a", "a">> >>

\* the position C19 describes: the end of the last occurrence before the
\* midpoint of the first marker whose position p has p >= max_chars / 4, and
\* the midpoint when no marker qualifies
QualifyingMarkers(t, mc) ==
    {k \in 1..5 : /\ rfind(t, Puncts[k], 0, Mid(t)) >= 0
                  /\ 4 * (rfind(t, Puncts[k], 0, Mid(t)) + Len(Puncts[k])) >= mc}

StatedSplitPos(t, mc) ==
    IF QualifyingMarkers(t, mc) = {} THEN Mid(t)
    ELSE rfind(t, Puncts[Min(QualifyingMarkers(t, mc))], 0, Mid(t))
             + Len(Puncts[Min(QualifyingMarkers(t, mc))])

\* C19: for a text longer than max_chars, the split position is the end of
\* the last occurrence before the midpoint of the first marker, in the order
\* ". ", "! ", "? ", newline, space, whose position p satisfies
\* p >= max_chars / 4 (a marker that does not occur is never accepted), and
\* the midpoint when no marker qualifies.
SplitAtFirstQualifying ==
    (pc = "done" /\ Len(text) > max_chars) =>
        /\ SplitPos(text, max_chars) = StatedSplitPos(text, max_chars)
        /\ chunks = split_into_chunks(
                        LeftHalf(text, StatedSplitPos(text, max_chars)), max_chars)
                    \o split_into_chunks(
                        RightHalf(text, StatedSplitPos(text, max_chars)), max_chars)

\* C20: for a text longer than max_chars whose first half holds a space or a
\* newline at a position >= max_chars / 4, the split is not made inside a
\* word: the character before or the character after the split position is
\* whitespace.
NoSplitInsideWord ==
    (/\ pc = "done"
     /\ Len(text) > max_chars
     /\ \E i \in 0..(Mid(text) - 1) :
            text[i + 1] \in {" ", "\n"} /\ 4 * i >= max_chars) =>
        \/ text[SplitPos(text, max_chars)] \in Whitespace
        \/ text[SplitPos(text, max_chars) + 1] \in Whitespace

(***************************************************************************)
(* clean_latex (app.py 273-285).                                           *)
(***************************************************************************)
\* s.replace(p, ''): the occurrences of p, found left to right without
\* overlap, are removed
RECURSIVE Remove(_, _)
Remove(s, p) ==
    LET at == find(s, p)
    IN  IF at < 0 THEN s ELSE Prefix(s, at) \o Remove(Suffix(s, at + Len(p)), p)

latex_commands == <<
    <<"\n">>, <<"\t">>, <<"\r">>, <<"\f">>, <<VT>>,
    <<"\\", "t", "e", "x", "t", "b", "f">>,
    <<"\\", "t", "e", "x", "t", "i", "t">>,
    <<"\\", "e", "m", "p", "h">>,
    <<"\\", "t", "e", "x", "t">>,
    <<"\\", "b", "e", "g", "i", "n">>,
    <<"\\", "e", "n", "d">>,
    <<"\\", "[">>, <<"\\", "]">>,
    <<"\\", "l", "e", "f", "t">>,
    <<"\\", "r", "i", "g", "h", "t">> >>

\* for cmd in latex_commands[k..]: text = text.replace(cmd, '')
RECURSIVE RemoveCommands(_, _)
RemoveCommands(s, k) ==
    IF k > Len(latex_commands)
    THEN s
    ELSE RemoveCommands(Remove(s, latex_commands[k]), k + 1)

\* variant that removes the delimiters only
CleanDelimitersOnly(s) == Remove(Remove(s, <<"$">>), <<"\\">>)

clean_latex(s) == RemoveCommands(Remove(Remove(s, <<"$">>), <<"\\">>), 1)

(***************************************************************************)
(* generate_study_material (app.py 845-904) with process_chunk (784-806)   *)
(* and combine_results (808-843).  The Completion Service is the           *)
(* environment: each call either returns a text or raises.                 *)
(***************************************************************************)
\* the keys of the instruction tables (app.py 670-763 and 817-827)
MaterialTypes == {"summary", "key_points", "questions"}

\* the languages that have an entry in combine_instructions
CombineLanguages == {"en", "es"}

\* what response.choices[0].message.content can be when the call returns
Responses ==
    { <<>>, <<"r">>, <<"\n">>, <<"$", "s">>, <<"\\", "e", "n", "d">>,
      <<"l", "\n", "\t", "\r", "\f", VT, "m">> }

\* what a call of client.chat.completions.create, or the reading of its
\* response, can raise: an API error, or an error on a response that carries
\* no text
ServiceFailures ==
    { [type |-> "GroqError", msg |-> <<"e">>],
      [type |-> "AttributeError", msg |-> <<"n">>] }

Outcomes ==
    {[kind |-> "text", content |-> r] : r \in Responses}
        \cup {[kind |-> "raise", exc |-> e] : e \in ServiceFailures}

\* instructions[material_type] raises KeyError for an unknown key (794, 830)
KeyError(m) == [type |-> "KeyError", msg |-> <<m>>]

\* {...}.get(lang, 'en')[material_type]: for a language without an entry the
\* default is the string 'en', and indexing it with a string raises TypeError
TypeError == [type |-> "TypeError", msg |-> <<"string indices must be integers">>]

\* variant in which the lookup of the instruction never fails
AnyMaterial(m) == TRUE

\* instructions[material_type] is defined
KnownMaterial(m) == m \in MaterialTypes

\* variant that joins all results, also a single one
NothingToCombineNever(rs) == FALSE

\* if len(results) == 1: return results[0]
NothingToCombine(rs) == Len(rs) = 1

\* except GroqError / except Exception: every exception raised here is an
\* Exception
Caught(e) == e.type \in {"GroqError", "AttributeError", "KeyError", "TypeError"}

\* variant of the handlers that returns what was collected with the message
HandleKeepingResults(e, rs) ==
    (IF rs = <<>> THEN <<>> ELSE rs[1]) \o <<"Error generating content: ">> \o e.msg

\* the two except clauses (901-904)
Handle(e, rs) ==
    IF e.type = "GroqError"
    THEN <<"Groq API Error: ">> \o e.msg
    ELSE <<"Error generating content: ">> \o e.msg

ErrorPrefixes ==
    { "Error: No transcript provided", "Error: Invalid material type",
      "Error: GROQ_API_KEY not found in environment variables",
      "Error: Unable to split transcript into chunks",
      "Groq API Error: ", "Error generating content: " }

IsErrorString(r) == r # <<>> /\ r[1] \in ErrorPrefixes

\* variant in which a failed call is issued again
RaiseAndRetry(e) ==
    /\ pc' = pc
    /\ result' = result

\* an exception raised inside the try block
Raise(e) ==
    /\ pc' = IF Caught(e) THEN "done" ELSE "raised"
    /\ result' = IF Caught(e) THEN Handle(e, results) ELSE <<>>

Return(r) ==
    /\ pc' = "done"
    /\ result' = r

\* the record of one Completion Service call
Call(kind, input, ok, response, output) ==
    [kind |-> kind, input |-> input, ok |-> ok, response |-> response,
     output |-> output]

GenAlphabet == {"a", " "}

Transcripts == UNION {[1..n -> GenAlphabet] : n \in 0..MaxTranscriptLen}

InitGen ==
    /\ pc = "start"
    /\ transcript \in Transcripts
    /\ material_type \in MaterialTypes \cup {"qa", ""}
    /\ language \in CombineLanguages \cup {"fr"}
    /\ api_key \in BOOLEAN
    /\ text = <<>>
    /\ max_chars = ChunkLimit
    /\ chunks = <<>>
    /\ idx = 0
    /\ results = <<>>
    /\ calls = <<>>
    /\ failed = FALSE
    /\ result = <<>>
    /\ FormatIdle
    /\ CacheIdle
    /\ FetchIdle

\* lines 858-878: the checks of the arguments and of the key, then the split
Validate ==
    /\ pc = "start"
    /\ UNCHANGED cacheVars
    /\ UNCHANGED fetchVars
    /\ UNCHANGED <<formatted, again, text, max_chars, language, transcript, material_type,
                   api_key, idx, results, calls, failed>>
    /\ IF transcript = <<>>
       THEN Return(<<"Error: No transcript provided">>) /\ UNCHANGED chunks
       ELSE IF material_type = ""
       THEN Return(<<"Error: Invalid material type">>) /\ UNCHANGED chunks
       ELSE IF ~api_key
       THEN /\ Return(<<"Error: GROQ_API_KEY not found in environment variables">>)
            /\ UNCHANGED chunks
       ELSE IF Len(transcript) > ChunkLimit
       THEN LET cs == split_into_chunks(transcript, ChunkLimit)
            IN  /\ chunks' = cs
                /\ IF cs = <<>>
                   THEN Return(<<"Error: Unable to split transcript into chunks">>)
                   ELSE pc' = "loop" /\ UNCHANGED result
       ELSE /\ pc' = "single"
            /\ UNCHANGED <<chunks, result>>

\* lines 884-890 with process_chunk: one iteration of the loop over the chunks
ProcessChunk ==
    /\ pc = "loop"
    /\ UNCHANGED cacheVars
    /\ UNCHANGED fetchVars
    /\ UNCHANGED <<formatted, again, text, max_chars, language, transcript, material_type,
                   api_key, chunks>>
    /\ IF ~KnownMaterial(material_type)
       THEN /\ Raise(KeyError(material_type))
            /\ UNCHANGED <<idx, results, calls, failed>>
       ELSE \E o \in Outcomes :
            IF o.kind = "text"
            THEN LET r == clean_latex(o.content)
                 IN  /\ calls' = Append(calls, Call("chunk", chunks[idx + 1], TRUE,
                                                  o.content, r))
                     /\ results' = IF r # <<>> THEN Append(results, r) ELSE results
                     /\ idx' = idx + 1
                     /\ pc' = IF idx + 1 = Len(chunks) THEN "combine" ELSE "loop"
                     /\ UNCHANGED <<failed, result>>
            ELSE /\ calls' = Append(calls, Call("chunk", chunks[idx + 1], FALSE,
                                                 <<>>, <<>>))
                 /\ failed' = TRUE
                 /\ Raise(o.exc)
                 /\ UNCHANGED <<idx, results>>

\* line 899 with process_chunk: the transcript processed as a single chunk
ProcessWhole ==
    /\ pc = "single"
    /\ UNCHANGED cacheVars
    /\ UNCHANGED fetchVars
    /\ UNCHANGED <<formatted, again, text, max_chars, language, transcript, material_type,
                   api_key, chunks, idx, results>>
    /\ IF ~KnownMaterial(material_type)
       THEN /\ Raise(KeyError(material_type))
            /\ UNCHANGED <<calls, failed>>
       ELSE \E o \in Outcomes :
            IF o.kind = "text"
            THEN /\ calls' = Append(calls, Call("chunk", transcript, TRUE, o.content,
                                                clean_latex(o.content)))
                 /\ Return(clean_latex(o.content))
                 /\ UNCHANGED failed
            ELSE /\ calls' = Append(calls, Call("chunk", transcript, FALSE, <<>>, <<>>))
                 /\ failed' = TRUE
                 /\ Raise(o.exc)

\* "\n\n".join(results)
RECURSIVE JoinResults(_)
JoinResults(rs) ==
    IF rs = <<>> THEN <<>>
    ELSE IF Len(rs) = 1 THEN rs[1]
    ELSE rs[1] \o <<"\n", "\n">> \o JoinResults(Tail(rs))

\* lines 893-896 with combine_results
Combine ==
    /\ pc = "combine"
    /\ UNCHANGED cacheVars
    /\ UNCHANGED fetchVars
    /\ UNCHANGED <<formatted, again, text, max_chars, language, transcript, material_type,
                   api_key, chunks, idx, results>>
    /\ IF NothingToCombine(results)
       THEN Return(results[1]) /\ UNCHANGED <<calls, failed>>
       ELSE IF language \notin CombineLanguages
       THEN Raise(TypeError) /\ UNCHANGED <<calls, failed>>
       ELSE IF ~KnownMaterial(material_type)
       THEN Raise(KeyError(material_type)) /\ UNCHANGED <<calls, failed>>
       ELSE \E o \in Outcomes :
            IF o.kind = "text"
            THEN /\ calls' = Append(calls, Call("merge", JoinResults(results), TRUE,
                                                o.content, clean_latex(o.content)))
                 /\ Return(clean_latex(o.content))
                 /\ UNCHANGED failed
            ELSE /\ calls' = Append(calls, Call("merge", JoinResults(results), FALSE,
                                                <<>>, <<>>))
                 /\ failed' = TRUE
                 /\ Raise(o.exc)

NextGen == Validate \/ ProcessChunk \/ ProcessWhole \/ Combine

SpecGen == InitGen /\ [][NextGen]_vars

(***************************************************************************)
(* Properties of generate_study_material.                                  *)
(***************************************************************************)
\* the arguments pass the checks of lines 858-868 and name a known material
ValidRequest ==
    /\ transcript # <<>>
    /\ material_type \in MaterialTypes
    /\ api_key

\* the first k calls are the calls for the chunks cs, in order
ChunkCallsFor(cs) ==
    /\ Len(calls) >= Len(cs)
    /\ \A j \in 1..Len(cs) : calls[j].kind = "chunk" /\ calls[j].input = cs[j]

SequentialCalls ==
    Len(transcript) > ChunkLimit =>
        /\ Len(calls) <= Len(chunks) + 1
        /\ \A j \in 1..Len(calls) :
             /\ calls[j].kind = "chunk" =>
                  j <= Len(chunks) /\ calls[j].input = chunks[j]
             /\ calls[j].kind = "merge" =>
                  /\ j = Len(chunks) + 1
                  /\ \A k \in 1..Len(chunks) :
                       calls[k].kind = "chunk" /\ calls[k].ok
             /\ ~calls[j].ok => j = Len(calls)
        /\ failed <=> (calls # <<>> /\ ~calls[Len(calls)].ok)
        /\ idx = Cardinality({j \in 1..Len(calls) :
                                 calls[j].kind = "chunk" /\ calls[j].ok})

\* C21 witness: the call of the second of at least three chunks failed and
\* the request ended with two calls issued.
SequentialCallsWitness ==
    /\ pc = "done"
    /\ ValidRequest
    /\ Len(chunks) >= 3
    /\ Len(calls) = 2
    /\ calls[1].ok
    /\ ~calls[2].ok
    /\ failed

\* a merge call was issued after the calls of all the chunks, and it failed
SequentialCallsMergeWitness ==
    /\ pc = "done"
    /\ Len(chunks) >= 2
    /\ Len(calls) = Len(chunks) + 1
    /\ calls[Len(calls)].kind = "merge"
    /\ ~calls[Len(calls)].ok

\* C8: generate_study_material never raises; a failure of a Completion Service
\* call, in a chunk call or in the merge call, and a missing API key give an
\* error string, and that string contains none of the results of the earlier
\* chunks.
NeverRaises ==
    /\ pc # "raised"
    /\ (pc = "done" /\ (failed \/ (transcript # <<>> /\ material_type # "" /\ ~api_key))) =>
           /\ IsErrorString(result)
           /\ \A j \in 1..Len(results) : ~Contains(result, results[j])

\* a call fails after earlier chunks gave results
NeverRaisesWitness ==
    /\ pc = "done"
    /\ failed
    /\ Len(results) >= 2
    /\ calls[Len(calls)].kind = "merge"
    /\ IsErrorString(result)

\* a response without its command tokens, dollar signs and backslashes
WithoutLatex(s) == Remove(Remove(RemoveCommands(s, 1), <<"$">>), <<"\\">>)

\* C16: every response of the Completion Service, of a chunk call or of the
\* merge call, is cleaned before it is merged or returned, and the cleaned
\* text holds no backslash, no dollar sign and none of the command tokens of
\* latex_commands: the token is removed, not only its backslash.
LatexRemoved ==
    \A j \in 1..Len(calls) :
        calls[j].ok =>
            /\ ~Contains(calls[j].output, <<"\\">>)
            /\ ~Contains(calls[j].output, <<"$">>)
            /\ calls[j].output = WithoutLatex(calls[j].response)

\* the characters that clean_latex removes as commands of one character
LineBreaks == {"\n", "\t", "\r", "\f", VT}

SingleLine(s) == \A k \in 1..Len(s) : s[k] \notin LineBreaks

Digits == {"0", "1", "2", "3", "4", "5", "6", "7", "8", "9"}

Lowers ==
        <<"a", "b", "c", "d", "e", "f", "g", "h", "i", "j", "k", "l", "m",
          "n", "o", "p", "q", "r", "s", "t", "u", "v", "w", "x", "y", "z">>

Uppers ==
        <<"A", "B", "C", "D", "E", "F", "G", "H", "I", "J", "K", "L", "M",
          "N", "O", "P", "Q", "R", "S", "T", "U", "V", "W", "X", "Y", "Z">>

\* the characters equal to c under re.IGNORECASE
BothCases(c) ==
    {c} \cup {Uppers[k] : k \in {j \in 1..26 : Lowers[j] = c}}
        \cup {Lowers[k] : k \in {j \in 1..26 : Uppers[j] = c}}

One(cs) == [cs |-> cs, lo |-> 1, many |-> FALSE]

Opt(cs) == [cs |-> cs, lo |-> 0, many |-> FALSE]

Star(cs) == [cs |-> cs, lo |-> 0, many |-> TRUE]

Plus(cs) == [cs |-> cs, lo |-> 1, many |-> TRUE]

\* a literal string, and a literal string under re.IGNORECASE
Lit(s) == [k \in 1..Len(s) |-> One({s[k]})]

ILit(s) == [k \in 1..Len(s) |-> One(BothCases(s[k]))]

\* the number of consecutive characters of s from position pos that are in cs
Run(s, pos, cs) ==
    Min({j \in pos..Len(s) : j = Len(s) \/ s[j + 1] \notin cs}) - pos

\* the end of the match of pat[k..] at position pos of s, or -1
RECURSIVE MatchEnd(_, _, _, _)
MatchEnd(s, pos, pat, k) ==
    IF k > Len(pat)
    THEN pos
    ELSE LET run == Run(s, pos, pat[k].cs)
             n == IF pat[k].many THEN run ELSE IF run > 0 THEN 1 ELSE 0
         IN  IF n < pat[k].lo THEN -1 ELSE MatchEnd(s, pos + n, pat, k + 1)

\* the end of the match at pos of the first alternative of pats that matches
MatchAlt(s, pos, pats) ==
    LET ok == {k \in 1..Len(pats) : MatchEnd(s, pos, pats[k], 1) >= 0}
    IN  IF ok = {} THEN -1 ELSE MatchEnd(s, pos, pats[Min(ok)], 1)

\* re.search from position from: the leftmost position of a match, or -1
Search(s, pats, from) ==
    MinOr({p \in from..Len(s) : MatchAlt(s, p, pats) >= 0}, -1)

\* re.sub(pats, '', s)
RECURSIVE SubAll(_, _)
SubAll(s, pats) ==
    LET p == Search(s, pats, 0)
    IN  IF p < 0 THEN s
        ELSE Prefix(s, p) \o SubAll(Suffix(s, MatchAlt(s, p, pats)), pats)

\* re.sub('^' + pats, '', s)
SubAtStart(s, pats) ==
    IF MatchAlt(s, 0, pats) >= 0 THEN Suffix(s, MatchAlt(s, 0, pats)) ELSE s

\* re.split('(' + pats + ')', s): the pieces with the separators kept
RECURSIVE SplitKeep(_, _)
SplitKeep(s, pats) ==
    LET p == Search(s, pats, 0)
        e == MatchAlt(s, p, pats)
    IN  IF p < 0 THEN <<s>>
        ELSE <<Prefix(s, p), Slice(s, p, e)>> \o SplitKeep(Suffix(s, e), pats)

\* re.split('(?:' + pats + ')', s): the pieces without the separators
RECURSIVE SplitDrop(_, _)
SplitDrop(s, pats) ==
    LET p == Search(s, pats, 0)
        e == MatchAlt(s, p, pats)
    IN  IF p < 0 THEN <<s>>
        ELSE <<Prefix(s, p)>> \o SplitDrop(Suffix(s, e), pats)

\* re.findall(lead + '(.*?)(?=' + stop + '|$)', s, re.DOTALL) from position
\* from; with whole, the spans include the lead, as for '(' + lead + '.*?)'
RECURSIVE FindSpans(_, _, _, _, _)
FindSpans(s, lead, stop, from, whole) ==
    LET p == Search(s, lead, from)
        e == MatchAlt(s, p, lead)
        q == Search(s, stop, e)
        last == IF q < 0 THEN Len(s) ELSE q
    IN  IF p < 0 THEN <<>>
        ELSE <<Slice(s, IF whole THEN p ELSE e, last)>>
                 \o FindSpans(s, lead, stop, last, whole)

\* s.split(sep, 1), for a sep that occurs in s
SplitOnce(s, sep) == <<Prefix(s, find(s, sep)), Suffix(s, find(s, sep) + Len(sep))>>

\* the characters of s at the positions keep, in order
Pick(s, keep) ==
    [j \in 1..Cardinality(keep) |->
        s[CHOOSE k \in keep : Cardinality({m \in keep : m <= k}) = j]]

\* re.sub(r'\s+', ' ', s): of a run of whitespace the first character is kept,
\* as a space
CollapseSpaces(s) ==
    LET keep == {k \in 1..Len(s) :
                    s[k] \notin Whitespace \/ k = 1 \/ s[k - 1] \notin Whitespace}
        kept == Pick(s, keep)
    IN  [j \in 1..Len(kept) |-> IF kept[j] \in Whitespace THEN " " ELSE kept[j]]

\* str(n) for a small number
Str(n) ==
    LET d == <<"0", "1", "2", "3", "4", "5", "6", "7", "8", "9">>
    IN  IF n < 10 THEN <<d[n + 1]>> ELSE <<d[(n \div 10) + 1], d[(n % 10) + 1]>>

(***************************************************************************)
(* The entries of the list `formatted`: a question/answer record, with the *)
(* text rendered in front of the question, or a piece of plain text.       *)
(***************************************************************************)
QA(head, q, a) == [kind |-> "qa", head |-> head, q |-> q, a |-> a]

Raw(t) == [kind |-> "text", text |-> t]

\* variant in which every record is headed Q1
EnglishHeadFirst(n) == <<"*", "*", "Q", "1", ":", "*", "*", " ">>

\* f"**Q{n}:** "
EnglishHead(n) == <<"*", "*", "Q">> \o Str(n) \o <<":", "*", "*", " ">>

\* f"**{q_num}**\n**Q:** "
SpanishHead(q_num) == <<"*", "*">> \o q_num \o
        <<"*", "*", "\n", "*", "*", "Q", ":", "*", "*", " ">>

\* `if formatted: return ...`: the list made so far when it has an entry,
\* and otherwise what the code goes on to make
OrElse(made, rest) == IF made # <<>> THEN made ELSE rest

\* the f-string of a record: head, question, "\n**A:** ", answer, "\n"
RenderItem(it) ==
    IF it.kind = "qa" THEN it.head \o it.q \o
        <<"\n", "*", "*", "A", ":", "*", "*", " ">> \o it.a \o <<"\n">>
    ELSE it.text

\* '\n'.join(formatted)
RECURSIVE Join(_)
Join(items) ==
    IF items = <<>> THEN <<>>
    ELSE IF Len(items) = 1 THEN RenderItem(items[1])
    ELSE RenderItem(items[1]) \o <<"\n">> \o Join(Tail(items))

(***************************************************************************)
(* format_spanish_qa (app.py 431-491).                                     *)
(***************************************************************************)
\* the heuristic distance of line 465
QuestionTail == 50

\* variant of the marker without the space before the number
PreguntaPatNoSpace == Lit(<<"P", "r", "e", "g", "u", "n", "t", "a">>) \o <<Plus(Digits), One({":"})>>

\* r'Pregunta \d+:'
PreguntaPat == Lit(
        <<"P", "r", "e", "g", "u", "n", "t", "a", " ">>) \o <<Plus(Digits), One({":"})>>

\* variant that renders the question as it was extracted
SpanishQuestionAsIs(question) == question

\* lines 462-468: a question without "?" gets one at its last period, or at
\* its end
SpanishQuestion(question) ==
    IF Contains(question, <<"?">>) THEN question
    ELSE LET last_period == rfind(question, <<".">>, 0, Len(question))
         IN  IF last_period > 0 /\ Len(question) - last_period < QuestionTail
             THEN Prefix(question, last_period) \o <<"?">>
                      \o Suffix(question, last_period + 1)
             ELSE rstripSet(question, {".", ":"}) \o <<"?">>

\* lines 471-473 and 485
SpanishAnswer(answer) == strip(SubAtStart(answer, <<PreguntaPat>>))

\* lines 448-489: the entry made of one 'Pregunta N:' marker and what follows
SpanishEntry(q_num, content) ==
    LET indicators == <<
        <<"R", "e", "s", "p", "u", "e", "s", "t", "a", ":">>,
        <<"A", ":">>>>
        found == {k \in 1..2 : Contains(content, indicators[k])}
    IN  IF found # {}
        THEN LET parts == SplitOnce(content, indicators[Min(found)])
             IN  QA(SpanishHead(q_num), SpanishQuestion(strip(parts[1])),
                    SpanishAnswer(CollapseSpaces(strip(parts[2]))))
        ELSE IF Contains(content, <<"?">>)
        THEN LET parts == SplitOnce(content, <<"?">>)
             IN  QA(SpanishHead(q_num), strip(parts[1]) \o <<"?">>,
                    SpanishAnswer(strip(parts[2])))
        ELSE Raw(<<"*", "*">> \o q_num \o
        <<"*", "*", " ">> \o content \o <<"\n">>)

\* the loop of lines 444-489 from the marker parts[k] on
RECURSIVE SpanishEntries(_, _)
SpanishEntries(parts, k) ==
    IF k + 1 > Len(parts) THEN <<>>
    ELSE <<SpanishEntry(strip(parts[k]), strip(parts[k + 1]))>>
             \o SpanishEntries(parts, k + 2)

\* the list `formatted` of format_spanish_qa
format_spanish_qa(t) ==
    LET parts == SplitKeep(t, <<PreguntaPat>>)
        intro == IF strip(parts[1]) # <<>>
                 THEN <<Raw(strip(parts[1]) \o <<"\n">>)>>
                 ELSE <<>>
    IN  intro \o SpanishEntries(parts, 2)

(***************************************************************************)
(* format_numbered_qa (app.py 493-619).                                    *)
(***************************************************************************)
\* text = re.sub(r'\s+', ' ', text).strip(), then the leading and trailing
\* runs of '*' and whitespace removed (lines 297-301 and 503-507)
CleanUp(t) ==
    rstripSet(lstripSet(strip(CollapseSpaces(t)), Whitespace \cup {"*"}),
              Whitespace \cup {"*"})

\* r'Q\s*\d*\s*:' and r'Question\s+\d+\s*:' under re.IGNORECASE
QuestionMarks ==
    << ILit(<<"Q">>) \o <<Star(Whitespace), Star(Digits), Star(Whitespace), One({":"})>>,
       ILit(<<"Q", "u", "e", "s", "t", "i", "o", "n">>)
           \o <<Plus(Whitespace), Plus(Digits), Star(Whitespace), One({":"})>> >>

\* r'A\s*\d*\s*:' and r'Answer\s+\d+\s*:' under re.IGNORECASE
AnswerMarks ==
    << ILit(<<"A">>) \o <<Star(Whitespace), Star(Digits), Star(Whitespace), One({":"})>>,
       ILit(<<"A", "n", "s", "w", "e", "r">>)
           \o <<Plus(Whitespace), Plus(Digits), Star(Whitespace), One({":"})>> >>

\* r'^[QA]\d*\s*:?\s*' under re.IGNORECASE
LeadingMark ==
    <<One({"Q", "q", "A", "a"}), Star(Digits), Star(Whitespace), Opt({":"}),
      Star(Whitespace)>>

\* r'\*+'
Stars == <<Plus({"*"})>>

\* r'(?:Question \d+:|Q\d+:)\s*' under re.IGNORECASE
IntroMarks ==
    << ILit(
        <<"Q", "u", "e", "s", "t", "i", "o", "n", " ">>) \o <<Plus(Digits), One({":"}), Star(Whitespace)>>,
       ILit(<<"Q">>) \o <<Plus(Digits), One({":"}), Star(Whitespace)>> >>

\* r'Here are the \d+ most important combined questions and answers' under
\* re.IGNORECASE
HereAre ==
    ILit(
        <<"H", "e", "r", "e", " ", "a", "r", "e", " ", "t", "h", "e", " ">>) \o <<Plus(Digits)>>
        \o ILit(
        <<" ", "m", "o", "s", "t", " ", "i", "m", "p", "o", "r", "t", "a",
          "n", "t", " ", "c", "o", "m", "b", "i", "n", "e", "d", " ", "q",
          "u", "e", "s", "t", "i", "o", "n", "s", " ", "a", "n", "d", " ",
          "a", "n", "s", "w", "e", "r", "s">>)

\* r'\d+\.\s*'
NumberDot == <<Plus(Digits), One({"."}), Star(Whitespace)>>

\* if not question.endswith('?'): question = question.rstrip('.:') + '?'
EndWithMark(question) ==
    IF question # <<>> /\ question[Len(question)] = "?" THEN question
    ELSE rstripSet(question, {".", ":"}) \o <<"?">>

\* re.sub(r'^.*?Here are the \d+ most ... answers.*?:', '', text): the text
\* after the first ':' that follows the first occurrence of the sentence
AfterIntro(t) ==
    LET p == Search(t, <<HereAre>>, 0)
        e == MatchAlt(t, p, <<HereAre>>)
        colons == {c \in e..(Len(t) - 1) : t[c + 1] = ":"}
    IN  IF p < 0 \/ colons = {} THEN t ELSE Suffix(t, Min(colons) + 1)

\* lines 525-541: the records of the pieces questions[k..], numbered from k-1
RECURSIVE IntroEntries(_, _)
IntroEntries(questions, k) ==
    IF k > Len(questions) THEN <<>>
    ELSE (IF Contains(questions[k], <<"A", "n", "s", "w", "e", "r", ":">>)
          THEN LET parts == SplitOnce(questions[k],
        <<"A", "n", "s", "w", "e", "r", ":">>)
                   lead == Digits \cup Whitespace \cup {"."}
               IN  <<QA(EnglishHead(k - 1),
                        EndWithMark(strip(lstripSet(strip(parts[1]), lead))),
                        CollapseSpaces(strip(lstripSet(strip(parts[2]), lead))))>>
          ELSE <<>>)
             \o IntroEntries(questions, k + 1)

\* lines 517-541
IntroTier(t) ==
    IF Contains(t,
        <<"H", "e", "r", "e", " ", "a", "r", "e", " ", "t", "h", "e">>)
         /\ Contains(t,
        <<"m", "o", "s", "t", " ", "i", "m", "p", "o", "r", "t", "a", "n",
          "t", " ", "c", "o", "m", "b", "i", "n", "e", "d", " ", "q", "u",
          "e", "s", "t", "i", "o", "n", "s", " ", "a", "n", "d", " ", "a",
          "n", "s", "w", "e", "r", "s">>)
    THEN IntroEntries(SplitDrop(AfterIntro(t), IntroMarks), 2)
    ELSE <<>>

\* variant of the cleaning of an answer that keeps its "*"
PairedAnswerKeepStars(a) ==
    strip(SubAtStart(strip(CollapseSpaces(strip(a))), <<LeadingMark>>))

\* lines 567-569
PairedAnswer(a) ==
    strip(SubAll(strip(SubAtStart(strip(CollapseSpaces(strip(a))), <<LeadingMark>>)),
                 <<Stars>>))

\* lines 547-571: the question spans and the answer spans, zipped when there
\* are as many of the ones as of the others
Paired(qa_pairs, a_parts) ==
    IF qa_pairs # <<>> /\ a_parts # <<>> /\ Len(qa_pairs) = Len(a_parts)
    THEN [k \in 1..Len(qa_pairs) |->
             QA(EnglishHead(k), EndWithMark(strip(qa_pairs[k])),
                PairedAnswer(a_parts[k]))]
    ELSE <<>>

PairedTier(t) ==
    Paired(FindSpans(t, QuestionMarks, QuestionMarks \o AnswerMarks, 0, FALSE),
           FindSpans(t, AnswerMarks, QuestionMarks \o AnswerMarks, 0, FALSE))

\* lines 578-594: the records of the numbered items items[k], items[k+2], ...
\* added to the list acc
RECURSIVE NumberedEntries(_, _, _)
NumberedEntries(items, k, acc) ==
    IF k > Len(items) THEN acc
    ELSE LET content == IF k + 1 <= Len(items) THEN items[k] \o items[k + 1]
                        ELSE items[k]
         IN  IF Contains(content, <<"?">>)
             THEN LET parts == SplitOnce(content, <<"?">>)
                  IN  NumberedEntries(items, k + 2,
                          Append(acc,
                              QA(EnglishHead(Len(acc) + 1), strip(parts[1]) \o <<"?">>,
                                 strip(CollapseSpaces(
                                     lstripSet(strip(parts[2]), Whitespace \cup {"*"}))))))
             ELSE NumberedEntries(items, k + 2, acc)

\* variant that keeps the text when no numbered item holds a question
NumberedTierKeepsText(t) ==
    LET items == SplitKeep(t, <<NumberDot>>)
    IN  IF Len(items) > 1
        THEN OrElse(NumberedEntries(items, 2, <<>>), <<Raw(t \o <<"\n">>)>>)
        ELSE <<>>

\* lines 574-594
NumberedTier(t) ==
    LET items == SplitKeep(t, <<NumberDot>>)
    IN  IF Len(items) > 1 THEN NumberedEntries(items, 2, <<>>) ELSE <<>>

\* s.split(sep) for a separator of one or two characters, and the list
\* [b.strip() for b in s.split(sep) if b.strip()]
RECURSIVE SplitAll(_, _)
SplitAll(s, sep) ==
    IF find(s, sep) < 0 THEN <<s>>
    ELSE <<Prefix(s, find(s, sep))>> \o SplitAll(Suffix(s, find(s, sep) + Len(sep)), sep)

StrippedPieces(s, sep) ==
    LET pieces == SplitAll(s, sep)
        kept == SelectSeq([k \in 1..Len(pieces) |-> strip(pieces[k])],
                          LAMBDA b : b # <<>>)
    IN  kept

\* lines 597-604: the blocks separated by blank lines
BlockTier(t) ==
    LET blocks == StrippedPieces(t, <<"\n", "\n">>)
        made == [k \in 1..Len(blocks) |->
                    IF Contains(blocks[k], <<"?">>)
                    THEN LET parts == SplitOnce(blocks[k], <<"?">>)
                         IN  <<QA(EnglishHead(k), strip(parts[1]) \o <<"?">>,
                                  strip(parts[2]))>>
                    ELSE <<>>]
        F[k \in 0..Len(blocks)] == IF k = 0 THEN <<>> ELSE F[k - 1] \o made[k]
    IN  F[Len(blocks)]

\* lines 607-617: the lines
LineTier(t) ==
    LET lines == StrippedPieces(t, <<"\n">>)
    IN  [k \in 1..Len(lines) |->
            IF Contains(lines[k], <<"?">>)
            THEN LET parts == SplitOnce(lines[k], <<"?">>)
                 IN  QA(EnglishHead(k), strip(parts[1]) \o <<"?">>, strip(parts[2]))
            ELSE Raw(lines[k] \o <<"\n">>)]

\* the list `formatted` of format_numbered_qa
EnglishTiers(t) ==
    OrElse(IntroTier(t),
        OrElse(PairedTier(t),
            OrElse(NumberedTier(t),
                OrElse(BlockTier(t), LineTier(t)))))

Tiers(t, lang) == IF lang = "es" THEN format_spanish_qa(t) ELSE EnglishTiers(t)

format_numbered_qa(t0, lang) == Tiers(CleanUp(t0), lang)

(***************************************************************************)
(* format_qa (app.py 287-350).  The value is the list `formatted` together *)
(* with the string returned; a text returned as it is has no entries.      *)
(***************************************************************************)
Formatted(items) == [formatted |-> items, out |-> Join(items)]

Unformatted(t) == [formatted |-> <<>>, out |-> t]

\* r'Q\d+:'
QNumber == Lit(<<"Q">>) \o <<Plus(Digits), One({":"})>>

\* r'Question \d+:'
QuestionNumber == Lit(
        <<"Q", "u", "e", "s", "t", "i", "o", "n", " ">>) \o <<Plus(Digits), One({":"})>>

\* line 307: re.search(r'Q\d+:', text) and r'Question \d+:' in text and
\* 'A: Answer:' in text; the second test looks for the characters of the
\* pattern themselves
DoubleMarked(t) ==
    /\ Search(t, <<QNumber>>, 0) >= 0
    /\ Contains(t,
        <<"Q", "u", "e", "s", "t", "i", "o", "n", " ", "\\", "d", "+", ":">>)
    /\ Contains(t, <<"A", ":", " ", "A", "n", "s", "w", "e", "r", ":">>)

\* lines 309-322: the records of the spans qa_pairs[k..]
RECURSIVE DoubleEntries(_, _)
DoubleEntries(qa_pairs, k) ==
    IF k > Len(qa_pairs) THEN <<>>
    ELSE LET qa == SubAll(qa_pairs[k], <<QuestionNumber>>)
         IN  (IF Contains(qa,
        <<"A", ":", " ", "A", "n", "s", "w", "e", "r", ":">>)
              THEN LET parts == SplitOnce(qa,
        <<"A", ":", " ", "A", "n", "s", "w", "e", "r", ":">>)
                       q == strip(lstripSet(strip(SubAll(parts[1], <<QNumber>>)),
                                            Whitespace \cup {":", "."}))
                   IN  <<QA(EnglishHead(k), EndWithMark(q), strip(parts[2]))>>
              ELSE <<>>)
                 \o DoubleEntries(qa_pairs, k + 1)

DoubleTier(t) ==
    IF DoubleMarked(t)
    THEN DoubleEntries(FindSpans(t, <<QNumber>>, <<QNumber>>, 0, TRUE), 1)
    ELSE <<>>

\* line 304: "Pregunta" in text or "pregunta" in text
SpanishLabeled(t) == Contains(t,
        <<"P", "r", "e", "g", "u", "n", "t", "a">>) \/ Contains(t,
        <<"p", "r", "e", "g", "u", "n", "t", "a">>)

\* lines 303-350, on the cleaned text
Dispatch(t, lang) ==
    IF lang = "es" /\ SpanishLabeled(t)
    THEN Formatted(format_spanish_qa(t))
    ELSE IF lang = "en"
    THEN Formatted(OrElse(DoubleTier(t), format_numbered_qa(t, lang)))
    ELSE Unformatted(t)

\* lines 294-350; for 'en' each of the tests of lines 327-345 returns
\* format_numbered_qa(text, language)
format_qa(t0, lang) ==
    IF t0 = <<>>
    THEN Unformatted(
        <<"N", "o", " ", "q", "u", "e", "s", "t", "i", "o", "n", "s", " ",
          "a", "n", "d", " ", "a", "n", "s", "w", "e", "r", "s", " ", "a",
          "v", "a", "i", "l", "a", "b", "l", "e", ".">>)
    ELSE Dispatch(CleanUp(t0), lang)

(***************************************************************************)
(* format_bullet_points (app.py 621-655).                                  *)
(***************************************************************************)
\* line 640: the three characters U+201A U+00C4 U+00A2 of the source file
bullet_char == <<"U+201A", "U+00C4", "U+00A2">>

\* lines 629-633
LooksLikeQA(t) ==
    /\ Contains(t, <<"?">>)
    /\ \/ Contains(t, <<"A", "n", "s", "w", "e", "r", ":">>)
       \/ Contains(t, <<"R", "e", "s", "p", "u", "e", "s", "t", "a", ":">>)
       \/ Contains(t, <<"A", ":">>)
       \/ Contains(t, <<"R", ":">>)
       \/ Contains(t, <<"Q", ":">>)
       \/ Contains(t, <<"P", "r", "e", "g", "u", "n", "t", "a", ":">>)

\* r'^\d+[\.\)]'
NumberedLine == <<Plus(Digits), One({".", ")"})>>

\* the character class [,A,c,*,-] of line 650: the three characters of
\* bullet_char, '*' and '-'
BulletClass == {bullet_char[1], bullet_char[2], bullet_char[3], "*", "-"}

\* lines 648-653: the output line of a non-blank stripped line
BulletLine(line) ==
    IF MatchEnd(line, 0, NumberedLine, 1) >= 0
    THEN bullet_char \o <<" ">> \o line
    ELSE IF line[1] \in BulletClass
    THEN bullet_char \o <<" ">> \o strip(Suffix(line, 1))
    ELSE bullet_char \o <<" ">> \o line

\* '\n'.join(lines)
RECURSIVE JoinLines(_)
JoinLines(ls) ==
    IF ls = <<>> THEN <<>>
    ELSE IF Len(ls) = 1 THEN ls[1]
    ELSE ls[1] \o <<"\n">> \o JoinLines(Tail(ls))

\* the list formatted_lines
BulletLines(t) ==
    LET lines == StrippedPieces(t, <<"\n">>)
    IN  [k \in 1..Len(lines) |-> BulletLine(lines[k])]

format_bullet_points(t, lang) ==
    IF LooksLikeQA(t) THEN format_qa(t, lang).out ELSE JoinLines(BulletLines(t))

(***************************************************************************)
(* Specification of a call of format_qa on a bounded text: the two example *)
(* texts of the documentation of the formatter, and the texts made of a    *)
(* few of the marker words the formatter looks for.                        *)
(***************************************************************************)
EnglishExample ==

    <<"Q", "u", "e", "s", "t", "i", "o", "n", " ", "1", ":", " ", "W", "h",
      "a", "t", " ", "i", "s", " ", "X", "?", "\n", "A", "n", "s", "w", "e",
      "r", ":", " ", "I", "t", " ", "i", "s", " ", "Y", ".", "\n", "\n", "Q",
      "u", "e", "s", "t", "i", "o", "n", " ", "2", ":", " ", "W", "h", "a",
      "t", " ", "i", "s", " ", "Z", "?", "\n", "A", "n", "s", "w", "e", "r",
      ":", " ", "I", "t", " ", "i", "s", " ", "W", ".">>

SpanishExample ==

    <<"P", "r", "e", "g", "u", "n", "t", "a", " ", "1", ":", " ", "U+00BF",
      "Q", "u", "U+00E9", " ", "e", "s", " ", "X", "?", " ", "R", "e", "s",
      "p", "u", "e", "s", "t", "a", ":", " ", "E", "s", " ", "Y", ".", " ",
      "P", "r", "e", "g", "u", "n", "t", "a", " ", "2", ":", " ", "U+00BF",
      "Q", "u", "U+00E9", " ", "e", "s", " ", "Z", "?", " ", "R", "e", "s",
      "p", "u", "e", "s", "t", "a", ":", " ", "E", "s", " ", "W", ".">>

\* texts in the formats the formatter looks for: a source number other than
\* the position, a span without its answer marker, text after the question
\* mark, a period inside the question, emphasis in the answer
SourceNumberExample ==
    <<"P", "r", "e", "g", "u", "n", "t", "a", " ", "2", ":", " ", "a", "?",
      " ", "R", "e", "s", "p", "u", "e", "s", "t", "a", ":", " ", "b">>

SkippedSpanExample ==
    <<"Q", "1", ":", " ", "Q", "u", "e", "s", "t", "i", "o", "n", " ", "\\",
      "d", "+", ":", " ", "Q", "2", ":", " ", "x", " ", "A", ":", " ", "A",
      "n", "s", "w", "e", "r", ":", " ", "y">>

TrailingTextExample ==
    <<"P", "r", "e", "g", "u", "n", "t", "a", " ", "1", ":", " ", "x", "?",
      " ", "y", " ", "R", "e", "s", "p", "u", "e", "s", "t", "a", ":", " ",
      "z">>

PeriodExample ==
    <<"P", "r", "e", "g", "u", "n", "t", "a", " ", "1", ":", " ", "a", ".",
      " ", "b", " ", "R", "e", "s", "p", "u", "e", "s", "t", "a", ":", " ",
      "c">>

SpanishStarExample ==
    <<"P", "r", "e", "g", "u", "n", "t", "a", " ", "1", ":", " ", "a", "?",
      " ", "R", "e", "s", "p", "u", "e", "s", "t", "a", ":", " ", "*", "b",
      "*">>

PairedStarExample ==
    <<"Q", ":", " ", "x", " ", "A", ":", " ", "*", "y", "*">>

\* an introduced list whose first item has no answer, and marker pairs with
\* source numbers 5 and 3
IntroGapExample ==
    <<"H", "e", "r", "e", " ", "a", "r", "e", " ", "t", "h", "e", " ", "2",
      " ", "m", "o", "s", "t", " ", "i", "m", "p", "o", "r", "t", "a", "n",
      "t", " ", "c", "o", "m", "b", "i", "n", "e", "d", " ", "q", "u", "e",
      "s", "t", "i", "o", "n", "s", " ", "a", "n", "d", " ", "a", "n", "s",
      "w", "e", "r", "s", ":", " ", "Q", "u", "e", "s", "t", "i", "o", "n",
      " ", "1", ":", " ", "a", " ", "Q", "u", "e", "s", "t", "i", "o", "n",
      " ", "2", ":", " ", "b", "?", " ", "A", "n", "s", "w", "e", "r", ":",
      " ", "c">>

RenumberedExample ==
    <<"Q", "5", ":", " ", "a", " ", "A", ":", " ", "b", " ", "Q", "3", ":",
      " ", "c", " ", "A", ":", " ", "d">>

QAExamples ==
    {EnglishExample, SpanishExample, SourceNumberExample, SkippedSpanExample,
     TrailingTextExample, PeriodExample, SpanishStarExample, PairedStarExample,
     IntroGapExample, RenumberedExample}

QAWords ==
    { <<"P", "r", "e", "g", "u", "n", "t", "a", " ", "1", ":">>,
      <<"R", "e", "s", "p", "u", "e", "s", "t", "a", ":">>,
      <<"Q", "u", "e", "s", "t", "i", "o", "n", " ", "1", ":">>,
      <<"A", "n", "s", "w", "e", "r", ":">>,
      <<"Q", "1", ":">>, <<"A", ":">>, <<"1", ".">>,
      <<"?">>, <<" ">>, <<"x">>, <<".">> }

\* the texts made of n words
RECURSIVE WordTexts(_)
WordTexts(n) ==
    IF n = 0 THEN { <<>> }
    ELSE {w \o t : w \in QAWords, t \in WordTexts(n - 1)}

QATexts == QAExamples \cup UNION {WordTexts(n) : n \in 0..MaxWords}

InitQA ==
    /\ pc = "start"
    /\ text \in QATexts
    /\ language \in {"en", "es"}
    /\ max_chars = 0
    /\ chunks = <<>>
    /\ result = <<>>
    /\ GenIdle
    /\ FormatIdle
    /\ CacheIdle
    /\ FetchIdle

FormatQA ==
    /\ pc = "start"
    /\ UNCHANGED cacheVars
    /\ UNCHANGED fetchVars
    /\ \E r \in {format_qa(text, language)} :
           /\ formatted' = r.formatted
           /\ result' = r.out
    /\ pc' = "done"
    /\ UNCHANGED <<again, text, max_chars, chunks, language, transcript,
                   material_type, api_key, idx, results, calls, failed>>

NextQA == FormatQA

SpecQA == InitQA /\ [][NextQA]_vars

(***************************************************************************)
(* Properties of format_qa.                                                *)
(***************************************************************************)
\* the question/answer records among the entries of `formatted`
Records == SelectSeq(formatted, LAMBDA it : it.kind = "qa")

EndsWithMark(q) == q # <<>> /\ q[Len(q)] = "?"

WhatIsX == <<"W", "h", "a", "t", " ", "i", "s", " ", "X", "?">>

WhatIsZ == <<"W", "h", "a", "t", " ", "i", "s", " ", "Z", "?">>

ItIsY == <<"I", "t", " ", "i", "s", " ", "Y", ".">>

ItIsW == <<"I", "t", " ", "i", "s", " ", "W", ".">>

\* C4: for the English example text, format_qa(text, 'en') renders exactly
\* two records, numbered 1 and 2 in that order, with the questions
\* "What is X?" and "What is Z?" and the answers "It is Y." and "It is W.".
EnglishExampleTwoRecords ==
    (pc = "done" /\ text = EnglishExample /\ language = "en") =>
        formatted = << QA(EnglishHead(1), WhatIsX, ItIsY),
                       QA(EnglishHead(2), WhatIsZ, ItIsW) >>

\* C5 as stated: for a non-empty text with a "?", in either language,
\* format_qa renders at least one question/answer record.
RecordForEveryQuestionMark ==
    (pc = "done" /\ text # <<>> /\ Contains(text, <<"?">>)) => Records # <<>>

\* C5 (amended): for a non-empty text with a "?", format_qa with language
\* 'en' renders at least one question/answer record, and every entry it
\* renders is a record; with language 'es' a text without "Pregunta" is
\* returned as cleaned, with no record.
RecordForEveryEnglishQuestionMark ==
    (pc = "done" /\ text # <<>> /\ Contains(text, <<"?">>)) =>
        /\ (language = "en") => (Records # <<>> /\ Records = formatted)
        /\ (language = "es" /\ ~SpanishLabeled(CleanUp(text))) =>
               (formatted = <<>> /\ result = CleanUp(text))

\* an English text whose only question mark stands before a numbered item:
\* no marker pairs and no numbered question, the paragraph tier makes the
\* record
RecordForEveryEnglishQuestionMarkWitness ==
    /\ pc = "done"
    /\ language = "en"
    /\ text = <<"x", "?", "1", ".">>
    /\ Len(formatted) = 1
    /\ formatted[1].q = <<"x", "?">>
    /\ formatted[1].a = <<"1", ".">>

Pregunta1 == <<"P", "r", "e", "g", "u", "n", "t", "a", " ", "1", ":">>

Pregunta2 == <<"P", "r", "e", "g", "u", "n", "t", "a", " ", "2", ":">>

QueEsX == <<"U+00BF", "Q", "u", "U+00E9", " ", "e", "s", " ", "X", "?">>

QueEsZ == <<"U+00BF", "Q", "u", "U+00E9", " ", "e", "s", " ", "Z", "?">>

\* C10: for the Spanish example text, format_qa(text, 'es') renders exactly
\* two records, in source order, whose questions end in "?" and whose answers
\* are "Es Y." and "Es W.".
SpanishExampleTwoRecords ==
    (pc = "done" /\ text = SpanishExample /\ language = "es") =>
        /\ Len(formatted) = 2
        /\ Records = formatted
        /\ \A k \in 1..2 : EndsWithMark(formatted[k].q)
        /\ formatted[1].head = SpanishHead(Pregunta1)
        /\ formatted[2].head = SpanishHead(Pregunta2)
        /\ formatted[1].q = QueEsX
        /\ formatted[2].q = QueEsZ
        /\ formatted[1].a = <<"E", "s", " ", "Y", ".">>
        /\ formatted[2].a = <<"E", "s", " ", "W", ".">>
        /\ result = Join(formatted)

\* the Spanish example text formatted
SpanishExampleWitness ==
    /\ pc = "done"
    /\ text = SpanishExample
    /\ language = "es"
    /\ Len(Records) = 2

\* the number written in the head of a record
RECURSIVE Num(_)
Num(ds) ==
    IF ds = <<>> THEN 0
    ELSE 10 * Num(SubSeq(ds, 1, Len(ds) - 1))
            + (CHOOSE d \in 0..9 : Str(d) = <<ds[Len(ds)]>>)

HeadNumber(head) == Num(SelectSeq(head, LAMBDA c : c \in Digits))

\* the label between the first "**" and the "**\n**Q:** " of a Spanish head
HeadLabel(head) == SubSeq(head, 3, Len(head) - 10)

QuestionsEndWithMark ==
    pc = "done" => \A k \in 1..Len(Records) : EndsWithMark(Records[k].q)

\* C12 (amended): every question of every rendered record contains a "?";
\* for 'en' it ends in "?"; for 'es' the "?" may be followed by text, when
\* the question already held a "?" before its end or when the "?" replaces
\* the last period of the question.
QuestionsHoldMark ==
    pc = "done" =>
        \A k \in 1..Len(Records) :
            /\ Contains(Records[k].q, <<"?">>)
            /\ (language = "en") => EndsWithMark(Records[k].q)

\* the Spanish question 'a. b' rendered as 'a? b'
QuestionsHoldMarkWitness ==
    /\ pc = "done"
    /\ text = PeriodExample
    /\ language = "es"
    /\ Len(Records) = 1
    /\ Records[1].q = <<"a", "?", " ", "b">>

\* the messages of lines 424 and 427
NoneGeneratedEn ==
    <<"N", "o", " ", "q", "u", "e", "s", "t", "i", "o", "n", "s", " ", "a",
      "n", "d", " ", "a", "n", "s", "w", "e", "r", "s", " ", "c", "o", "u",
      "l", "d", " ", "b", "e", " ", "g", "e", "n", "e", "r", "a", "t", "e",
      "d", " ", "f", "r", "o", "m", " ", "t", "h", "e", " ", "c", "o", "n",
      "t", "e", "n", "t", ".">>

NoneGeneratedEs ==
    <<"N", "o", " ", "s", "e", " ", "p", "u", "d", "i", "e", "r", "o", "n",
      " ", "g", "e", "n", "e", "r", "a", "r", " ", "p", "r", "e", "g", "u",
      "n", "t", "a", "s", " ", "y", " ", "r", "e", "s", "p", "u", "e", "s",
      "t", "a", "s", " ", "a", " ", "p", "a", "r", "t", "i", "r", " ", "d",
      "e", "l", " ", "c", "o", "n", "t", "e", "n", "i", "d", "o", ".">>

\* C13: when format_qa extracts no record from a non-empty text, it returns
\* the fixed message of the requested language, never the text or an empty
\* string.
NoRecordMessage ==
    (pc = "done" /\ text # <<>> /\ Records = <<>>) =>
        result = (IF language = "es" THEN NoneGeneratedEs ELSE NoneGeneratedEn)

\* the marker tokens an answer may be left with at its start
MarkerTokens ==
    { <<"A", "n", "s", "w", "e", "r", ":">>, <<"A", ":">>, <<"Q", ":">>,
      <<"R", "e", "s", "p", "u", "e", "s", "t", "a", ":">> }

\* C14 as stated: in every rendered record, whichever tier made it, the
\* answer does not begin with a question/answer marker token and holds no "*".
AnswersClean ==
    pc = "done" =>
        \A k \in 1..Len(Records) :
            /\ ~Contains(Records[k].a, <<"*">>)
            /\ \A m \in MarkerTokens : ~IsAt(Records[k].a, m, 0)

\* C14 (amended): the answers of the records made by the marker-pair tier of
\* format_numbered_qa hold no "*"; the answers of format_spanish_qa do not
\* begin with a 'Pregunta n:' marker.  The other tiers leave a leading marker
\* token and "*" in the answer.
AnswersCleanInPairs ==
    pc = "done" =>
        /\ (/\ language = "en"
            /\ DoubleTier(CleanUp(text)) = <<>>
            /\ IntroTier(CleanUp(text)) = <<>>
            /\ PairedTier(CleanUp(text)) # <<>>) =>
               \A k \in 1..Len(Records) : ~Contains(Records[k].a, <<"*">>)
        /\ (language = "es") =>
               \A k \in 1..Len(Records) :
                   MatchEnd(Records[k].a, 0, PreguntaPat, 1) < 0

\* the answer '*y' of a marker pair rendered as 'y'
AnswersCleanInPairsWitness ==
    /\ pc = "done"
    /\ text = PairedStarExample
    /\ language = "en"
    /\ Len(Records) = 1
    /\ Records[1].a = <<"y">>

(***************************************************************************)
(* Specification of format_bullet_points applied to a bounded text and     *)
(* then to its own output.                                                 *)
(***************************************************************************)
BulletWords ==
    { <<"x">>, <<" ">>, <<"\n">>, <<"1", ".">>, <<"2", ")">>, <<"*">>, <<"-">>,
      bullet_char, <<"?">>, <<"A", ":">> }

\* the texts made of n words
RECURSIVE BulletTexts(_)
BulletTexts(n) ==
    IF n = 0 THEN { <<>> }
    ELSE {w \o t : w \in BulletWords, t \in BulletTexts(n - 1)}

\* the texts handed to format_bullet_points
BulletInputs == UNION {BulletTexts(n) : n \in 0..MaxBulletWords}

InitBullet ==
    /\ pc = "start"
    /\ text \in BulletInputs
    /\ language \in {"en", "es"}
    /\ max_chars = 0
    /\ chunks = <<>>
    /\ result = <<>>
    /\ GenIdle
    /\ FormatIdle
    /\ CacheIdle
    /\ FetchIdle

FormatBullets ==
    /\ pc = "start"
    /\ UNCHANGED cacheVars
    /\ UNCHANGED fetchVars
    /\ result' = format_bullet_points(text, language)
    /\ pc' = "once"
    /\ UNCHANGED <<formatted, again, text, max_chars, chunks, language,
                   transcript, material_type, api_key, idx, results, calls,
                   failed>>

FormatBulletsAgain ==
    /\ pc = "once"
    /\ UNCHANGED cacheVars
    /\ UNCHANGED fetchVars
    /\ again' = format_bullet_points(result, language)
    /\ pc' = "twice"
    /\ UNCHANGED <<formatted, result, text, max_chars, chunks, language,
                   transcript, material_type, api_key, idx, results, calls,
                   failed>>

NextBullet == FormatBullets \/ FormatBulletsAgain

SpecBullet == InitBullet /\ [][NextBullet]_vars

(***************************************************************************)
(* Properties of format_bullet_points.                                     *)
(***************************************************************************)
\* C9: for a text that takes the bullet path, format_bullet_points applied to
\* its own output returns that output unchanged: each line keeps exactly one
\* bullet_char and no residue of an earlier one.
BulletIdempotent ==
    (pc = "twice" /\ ~LooksLikeQA(text)) => again = result


\* the content of a line as C15 describes it: the line without its leading
\* bullet marker (bullet_char, '*' or '-') or numbering marker ('1.', '2)')
MarkerFreeContent(line) ==
    IF IsAt(line, bullet_char, 0) THEN strip(Suffix(line, Len(bullet_char)))
    ELSE IF line[1] \in {"*", "-"} THEN strip(Suffix(line, 1))
    ELSE IF MatchEnd(line, 0, NumberedLine, 1) >= 0
    THEN strip(Suffix(line, MatchEnd(line, 0, NumberedLine, 1)))
    ELSE line

\* C15: on the bullet path every non-blank line yields exactly one output
\* line, in order, made of bullet_char, a space and the content of the line
\* without its leading bullet or numbering marker; blank lines yield nothing.
BulletPerLine ==
    (pc \in {"once", "twice"} /\ ~LooksLikeQA(text)) =>
        LET lines == StrippedPieces(text, <<"\n">>)
        IN  result = JoinLines([k \in 1..Len(lines) |->
                         bullet_char \o <<" ">> \o MarkerFreeContent(lines[k])])


(***************************************************************************)
(* Memoization.  get_transcript is wrapped by functools.lru_cache with     *)
(* maxsize=32 and generate_study_material by st.cache_data with ttl=3600.  *)
(* A store is a sequence of entries: for the lru_cache the least recently  *)
(* used entry comes first, for st.cache_data every entry carries its age.  *)
(* The one call site of each function passes the arguments in one form, so *)
(* the key is the tuple of argument values.                                *)
(***************************************************************************)
MaxEntries == 2

TimeToLive == 2

MaxCalls == 4

VideoIds == {"", "v1", "v2", "v3"}

TranscriptKeys == {<<v, "es">> : v \in VideoIds}

GenerateKeys == {<<"t", "summary", l>> : l \in {"en", "es"}}

NoVideoId == "Error: No video ID provided"

NoTranscript == "Error: Could not retrieve transcript - e"

\* what the body of get_transcript returns: the transcript source is not
\* asked for an empty id, and its exception becomes an error string
TranscriptResults(key) ==
    IF key[1] = "" THEN {NoVideoId} ELSE {"transcript", NoTranscript}

\* what the body of generate_study_material returns: content or an error
\* string, never an exception
GenerateResults == {"material", "Groq API Error: e"}

Stored(store, key) == \E k \in 1..Len(store) : store[k].key = key

ValueOf(store, key) ==
    store[CHOOSE k \in 1..Len(store) : store[k].key = key].value

Without(store, key) == SelectSeq(store, LAMBDA e : e.key # key)

\* the lru_cache drops its least recently used entry when it is over capacity
Fit(store) == IF Len(store) > MaxEntries THEN Tail(store) ELSE store

\* both decorators store whatever the function returns
CacheableContentOnly(value) ==
    value \notin {NoVideoId, NoTranscript, "Groq API Error: e"}

Cacheable(value) == TRUE

Called(fn, key, hit, invoked, value) ==
    [fn |-> fn, key |-> key, hit |-> hit, invoked |-> invoked, value |-> value]

workVars == <<pc, text, max_chars, chunks, language, transcript, material_type,
              api_key, idx, results, calls, failed, formatted, again>>

InitCache ==
    /\ pc = "serving"
    /\ text = <<>>
    /\ max_chars = 1
    /\ chunks = <<>>
    /\ language = "en"
    /\ result = <<>>
    /\ GenIdle
    /\ FormatIdle
    /\ CacheIdle
    /\ FetchIdle

GetTranscript ==
    /\ pc = "serving"
    /\ Len(log) < MaxCalls
    /\ \E key \in TranscriptKeys :
         IF Stored(lru, key)
         THEN /\ lru' = Append(Without(lru, key),
                               [key |-> key, value |-> ValueOf(lru, key)])
              /\ result' = <<ValueOf(lru, key)>>
              /\ log' = Append(log, Called("get_transcript", key, TRUE, FALSE,
                                           ValueOf(lru, key)))
         ELSE \E value \in TranscriptResults(key) :
              /\ lru' = IF Cacheable(value)
                        THEN Fit(Append(lru, [key |-> key, value |-> value]))
                        ELSE lru
              /\ result' = <<value>>
              /\ log' = Append(log, Called("get_transcript", key, FALSE,
                                           key[1] # "", value))
    /\ UNCHANGED <<cache_data, workVars>>
    /\ UNCHANGED fetchVars

GenerateStudyMaterial ==
    /\ pc = "serving"
    /\ Len(log) < MaxCalls
    /\ \E key \in GenerateKeys :
         IF Stored(cache_data, key)
         THEN /\ cache_data' = cache_data
              /\ result' = <<ValueOf(cache_data, key)>>
              /\ log' = Append(log, Called("generate_study_material", key,
                                           TRUE, FALSE,
                                           ValueOf(cache_data, key)))
         ELSE \E value \in GenerateResults :
              /\ cache_data' = IF Cacheable(value)
                               THEN Append(cache_data, [key |-> key,
                                                        value |-> value,
                                                        age |-> 0])
                               ELSE cache_data
              /\ result' = <<value>>
              /\ log' = Append(log, Called("generate_study_material", key,
                                           FALSE, TRUE, value))
    /\ UNCHANGED <<lru, workVars>>
    /\ UNCHANGED fetchVars

\* time passes: every stored result ages, and one as old as the ttl is gone
Tick ==
    /\ pc = "serving"
    /\ cache_data # <<>>
    /\ cache_data' = SelectSeq([k \in 1..Len(cache_data) |->
                                  [cache_data[k] EXCEPT !.age = @ + 1]],
                               LAMBDA e : e.age < TimeToLive)
    /\ UNCHANGED <<lru, log, result, workVars>>
    /\ UNCHANGED fetchVars

NextCache == GetTranscript \/ GenerateStudyMaterial \/ Tick

SpecCache == InitCache /\ [][NextCache]_vars

\* the calls of one function with one key among the first n calls
SameCalls(fn, key, n) ==
    {m \in 1..n : log[m].fn = fn /\ log[m].key = key}

\* the keys of get_transcript used after call i among the first n calls
KeysSince(i, n) ==
    {log[m].key : m \in {k \in (i + 1)..n : log[k].fn = "get_transcript"}}

\* the call just made finds its key stored: an earlier call of get_transcript
\* with this key after which fewer than MaxEntries other keys were used, or
\* an entry of generate_study_material younger than the ttl
StillStored(e) ==
    \/ /\ e.fn = "get_transcript"
       /\ \E i \in SameCalls(e.fn, e.key, Len(log)) :
            Cardinality(KeysSince(i, Len(log)) \ {e.key}) < MaxEntries
    \/ /\ e.fn = "generate_study_material"
       /\ \E k \in 1..Len(cache_data) :
            cache_data[k].key = e.key /\ cache_data[k].age < TimeToLive

\* the call e returns what the call that computed the result returned
FromComputingCall(e) ==
    \E i \in SameCalls(e.fn, e.key, Len(log)) :
        /\ ~log[i].hit
        /\ log[i].value = e.value
        /\ \A m \in SameCalls(e.fn, e.key, Len(log)) : m > i => log[m].hit

MemoizedStep ==
    log' # log =>
        /\ result' = <<log'[Len(log')].value>>
        /\ StillStored(log'[Len(log')]) => log'[Len(log')].hit
        /\ log'[Len(log')].hit =>
             /\ ~log'[Len(log')].invoked
             /\ FromComputingCall(log'[Len(log')])

\* C18: a call of get_transcript whose key is still in the lru_cache, and a
\* call of generate_study_material whose key was stored less than the ttl
\* ago, return what the call that computed the entry returned, content or
\* error string, and do not invoke the transcript source or the completion
\* service.
Memoized == [][MemoizedStep]_vars

\* C18 witness: an error string of each function was returned a second time
\* from the store, without a second invocation.
MemoizedWitness ==
    /\ \E m \in 1..Len(log) :
         /\ log[m].fn = "get_transcript"
         /\ log[m].hit
         /\ log[m].value = NoTranscript
    /\ \E m \in 1..Len(log) :
         /\ log[m].fn = "generate_study_material"
         /\ log[m].hit
         /\ log[m].value = "Groq API Error: e"


(***************************************************************************)
(* _get_transcript_yt_dlp (app.py 68-224): up to max_retries attempts,     *)
(* each of them a series of yt-dlp runs.  A message is a sequence of       *)
(* pieces of text, the piece "429" being the text the handlers look for.   *)
(***************************************************************************)
MaxMaxRetries == 3

RateLimited == <<"Rate limited by YouTube (", "429", ")">>

NoTranscriptAvailable == <<"No transcript available for this video">>

LimitExceeded ==
    <<"YouTube rate limit exceeded. Please try again in a few minutes.">>

\* "429" in str(e)
Is429(msg) == \E i \in 1..Len(msg) : msg[i] = "429"

\* messages of other exceptions raised inside a run
OtherErrors ==
    { <<"[Errno 2] No such file or directory: 'yt-dlp'">>,
      <<"[Errno 13] Permission denied: '/tmp/tmp", "429", "x'">> }

\* what one run of yt-dlp and the reading of its files can give: a subtitle
\* file with text, no file or a blank text, a timeout, "429" in stderr, or
\* another exception
RunOutcomes ==
    { [kind |-> "found", value |-> <<"transcript">>],
      [kind |-> "nothing", value |-> <<>>],
      [kind |-> "timeout", value |-> <<>>],
      [kind |-> "limited", value |-> RateLimited] }
    \cup {[kind |-> "error", value |-> m] : m \in OtherErrors}

\* target_lang = lang_map.get(language, 'en')
TargetLang(l) == IF l \in {"es", "en"} THEN l ELSE "en"

\* two runs for the target language, two more for English as a fallback
RunsPerAttempt(l) == IF TargetLang(l) # "en" THEN 4 ELSE 2

\* the inner handlers: an exception is raised again when its message holds
\* "429", and is dropped otherwise
Propagates(o) == o.kind \in {"limited", "error"} /\ Is429(o.value)

\* variant of the outer handler that tries again after any failure
RetriesAlways(msg, a, mr) == a < mr - 1

\* if "429" in str(e) and attempt < max_retries - 1: continue
Retries(msg, a, mr) == Is429(msg) /\ a < mr - 1

\* the two raise branches of the outer handler
Reraised(msg, a, mr) ==
    IF a = mr - 1 /\ Is429(msg) THEN LimitExceeded ELSE msg

\* the outer handler (lines 210-222)
Except(msg) ==
    /\ ended' = Append(ended, [kind |-> "raised", value |-> msg])
    /\ IF Retries(msg, attempt, max_retries)
       THEN /\ attempt' = attempt + 1
            /\ pc' = "attempt"
            /\ fetched' = fetched
       ELSE /\ attempt' = attempt
            /\ pc' = "fetched"
            /\ fetched' = [kind |-> "raise",
                           value |-> Reraised(msg, attempt, max_retries)]

InitFetch ==
    /\ pc = "attempt"
    /\ language \in {"es", "en", "fr"}
    /\ max_retries \in 0..MaxMaxRetries
    /\ attempt = 0
    /\ runs = <<>>
    /\ ended = <<>>
    /\ fetched = [kind |-> "none", value |-> <<>>]
    /\ text = <<>>
    /\ max_chars = 1
    /\ chunks = <<>>
    /\ result = <<>>
    /\ GenIdle
    /\ FormatIdle
    /\ CacheIdle

\* for attempt in range(max_retries), and line 224 after the loop
BeginAttempt ==
    /\ pc = "attempt"
    /\ IF attempt < max_retries
       THEN /\ pc' = "run"
            /\ runs' = <<>>
            /\ fetched' = fetched
       ELSE /\ pc' = "fetched"
            /\ runs' = runs
            /\ fetched' = [kind |-> "raise", value |-> NoTranscriptAvailable]
    /\ UNCHANGED <<max_retries, attempt, ended, cacheVars, result, text,
                   max_chars, chunks, language, transcript, material_type,
                   api_key, idx, results, calls, failed, formatted, again>>

\* one run of yt-dlp (lines 119-156 and 169-204), and the end of the attempt
\* when the run ends it
RunYtDlp ==
    /\ pc = "run"
    /\ \E o \in RunOutcomes :
         /\ runs' = Append(runs, o)
         /\ IF o.kind = "found"
            THEN /\ pc' = "fetched"
                 /\ fetched' = [kind |-> "return", value |-> o.value]
                 /\ ended' = Append(ended, o)
                 /\ attempt' = attempt
            ELSE IF Propagates(o)
            THEN Except(o.value)
            ELSE IF Len(runs) + 1 = RunsPerAttempt(language)
            THEN Except(NoTranscriptAvailable)
            ELSE UNCHANGED <<pc, fetched, ended, attempt>>
    /\ UNCHANGED <<max_retries, cacheVars, result, text, max_chars, chunks,
                   language, transcript, material_type, api_key, idx, results,
                   calls, failed, formatted, again>>

NextFetch == BeginAttempt \/ RunYtDlp

SpecFetch == InitFetch /\ [][NextFetch]_vars

\* the number of attempts started so far
Started == Len(ended) + (IF pc = "run" THEN 1 ELSE 0)

FetchNoRetryWitness ==
    /\ pc = "fetched"
    /\ max_retries = 3
    /\ Len(ended) = 1
    /\ fetched = [kind |-> "raise", value |-> NoTranscriptAvailable]

====
